---- MODULE Spec2Model ----
(***************************************************************************)
(* Model of the download queue manager of yt-dlp-web:                      *)
(*   src/src/apps/backend/download-queue.ts  (DownloadQueueManager)        *)
(*   src/src/apps/backend/yt-dlp-cli.ts      (YtDlpCli, lines 1-384)       *)
(*                                                                         *)
(* The program runs on one event loop.  Every action below is one          *)
(* run-to-completion step of that loop: the synchronous part of a handler  *)
(* from the event that starts it to the next await it suspends on,         *)
(* together with every call it makes on the way.                           *)
(***************************************************************************)
EXTENDS Integers, Sequences, FiniteSets, TLC

\* ---------------------------------------------------------------- bounds
\* Job ids that one behaviour of Spec may create.
NumJobs == 5
\* Job ids that one behaviour of RunSpec may create.
RunJobs == 2
\* Job ids that one behaviour of RestartSpec may create.
RestartJobs == 2
\* Job ids that one behaviour of ResumeSpec may create after the restart.
ResumeJobs == 3
\* Length of the playlist item list of a per-item job.
NumItems == 2
\* SaveSpec: the ids handed out, the step of the clock and its last value (ms).
SaveJobs == 2
TickMs == 500
MaxClock == 3000
\* NotifySpec: the open sockets and the ids handed out.
NumSockets == 2
NotifyJobs == 1
\* ThrottleSpec: the ids handed out (one more than there are slots), the step
\* of the clock and its last value (ms).
ThrottleJobs == 4
ThrottleTickMs == 250
MaxThrottleClock == 500
\* ItemSpec: the ids handed out.
ItemJobs == 2
\* LoopSpec: the ids handed out.
LoopJobs == 1
\* WriteSpec: the ids handed out and the writes in progress at one time.
WriteJobs == 1
MaxWriting == 2
\* LineSpec: the ids handed out, and the largest item count of a playlist
\* whose items a process announces.
LineJobs == 2
MaxVideos == 2
\* PersistSpec: the ids handed out after the one of the snapshot.
PersistJobs == 2
\* ReloadSpec: the ids handed out.
ReloadJobs == 4
\* PrefetchSpec: the ids handed out.
PrefetchJobs == 4
\* TableSpec: the ids handed out.
TableJobs == 4
\* RegistrySpec: the ids handed out.
RegistryJobs == 1
\* SpeedSpec: the ids handed out and the speed samples the running processes
\* print between them.
SpeedJobs == 2
MaxSamples == 6

\* ------------------------------------------------------ program constants
MAX_CONCURRENT == 3
SAVE_DELAY == 1000
BROADCAST_INTERVAL == 500
SPEED_HISTORY_SIZE == 5

\* The jobs of the snapshot ResumeSpec starts from: a full set of slots and
\* one waiting job.
PriorJobs == MAX_CONCURRENT + 1

\* The ids a run hands out: up to the largest number any specification
\* below lets a run create.
Caps == {NumJobs, RunJobs, RestartJobs, PriorJobs + ResumeJobs, SaveJobs,
         NotifyJobs, ThrottleJobs, ItemJobs, LoopJobs, SpeedJobs,
         RegistryJobs, TableJobs, WriteJobs,
         PrefetchJobs, LineJobs, ReloadJobs,
         1 + PersistJobs}

MaxId == CHOOSE m \in Caps : \A c \in Caps : c <= m

Ids == 1..MaxId

\* The id of the job submitted first.
FirstJob == CHOOSE j \in Ids : \A k \in Ids : j <= k

Terminal == {"completed", "failed", "cancelled"}

NoTimer == -1

\* The snapshot file when it does not hold a document written by saveState.
NoFile == [kind |-> "missing", raw |-> "", jobs |-> <<>>, queue |-> <<>>]

\* The open WebSocket connections.
Sockets == 1..NumSockets

\* The percent values and the raw speed values a progress line may carry.
Percents == {0, 50}
Speeds == {10, 30}

\* The playlist item lists of a per-item job: the orders of NumItems indices.
ItemLists ==
    {s \in [1..NumItems -> 1..NumItems] : \A a, b \in 1..NumItems :
                                            s[a] = s[b] => a = b}

Range(s) == {s[i] : i \in 1..Len(s)}

\* Words that leaves the number out.
WordsOnly(text, n) == text

\* String(error) as the pieces of its text; a number is written in decimal.
Words(text, n) == text \o <<ToString(n)>>

\* A percent value num/den.
Pct(n, d) == [num |-> n, den |-> d]

\* DownloadProgress: percent, and the optional currentVideo, totalVideos (0
\* when absent) and speed (the empty sequence when absent, else the value in
\* hundredths of the unit).
InitialProgress ==
    [percent |-> Pct(0, 1), currentVideo |-> 0, totalVideos |-> 0,
     speed |-> <<>>]

\* An output line of a process by what the parser reads in it: whether it
\* contains "[download]", its percent, its speed and its "N of M" item
\* announcement (each the empty sequence when absent).
Line(tag, percent, speed, announce) ==
    [tag |-> tag, percent |-> percent, speed |-> speed, announce |-> announce]

\* What is remembered of the last line of a download: the line and the number
\* of onProgress calls it caused; NoLine before the first line.
NoLine == [line |-> Line(FALSE, <<>>, <<>>, <<>>), calls |-> 0]

\* The job object addDownload creates for a request whose type was detected
\* as `type` and whose title (none: the empty sequence) is `title`; error and
\* files are not set yet.
JobOf(type, title) ==
    [status |-> "pending", progress |-> InitialProgress, error |-> <<>>,
     files |-> <<>>, type |-> type, title |-> title]

\* The job of a single video whose metadata was fetched.
NewJob == JobOf("video", <<"Title">>)

\* What broadcast() sent last for a job (the message, the subscribers, those
\* that received it and those whose send() threw), and the delivered progress
\* notifications: the progress value of the last one (none yet: the empty
\* sequence), when it was delivered, and whether one was ever delivered less
\* than BROADCAST_INTERVAL after the one before it.
NoEvent ==
    [type |-> "none", msg |-> <<>>, subs |-> {}, to |-> {}, failed |-> {},
     progress |-> <<>>, progressAt |-> NoTimer, early |-> FALSE]

VARIABLES
    jobs,            \* this.jobs: id -> the job object (status, perItem)
    queue,           \* this.queue
    activeDownloads, \* this.activeDownloads
    activeProcesses, \* ytDlp.activeProcesses (the ids that have a handle)
    perItem,         \* the ids whose job has a non-empty playlistItemFormats
    task,            \* where each executeDownload call stands
    item,            \* per-item mode: completedItems of the running loop
    proc,            \* the operating system process of each task
    nextId,          \* the next id generateJobId hands out
    sent,            \* this run: the event types broadcast() was called with
    clock,           \* wall time in ms (advances only in SaveSpec)
    saveTimeout,     \* this.saveTimeout: the deadline of the armed timer
    saves,           \* the record of the saveState calls and of the writes
    stateFile,       \* the content of data/queue-state.json
    backups,         \* the contents written to <stateFile>.corrupt.<time>
    loadPc,          \* where the constructor's loadState call stands
    admitted,        \* this run: the ids handed to executeDownload
    spawns,          \* this run: the processes spawned per id
    cancelRet,       \* this run: the status a job had when cancel returned true
    wsClients,       \* this.wsClients: id -> the sockets, in insertion order
    broken,          \* the sockets whose send() throws
    events,          \* this run: the last broadcast() call of each id
    exits,           \* this run: the exit codes of the processes of each id
    lastBroadcastTime, \* executeDownload: lastBroadcastTime of each task
    lastProgress,    \* YtDlpCli.download: lastProgress of each call
    speedHistory,    \* YtDlpCli.speedHistory
    samples,         \* the raw speed samples of the running download of each id
    lastLine,        \* the last output line of the running download of each id
    allFiles,        \* per-item mode: allFiles of the running loop
    playlistItems,   \* playlistItems of the job object of each id
    procItems        \* this run: the playlist items given to each process

vars == <<jobs, queue, activeDownloads, activeProcesses, perItem, task, item,
          proc, nextId, sent, clock, saveTimeout, saves, stateFile, backups,
          loadPc, admitted, spawns, cancelRet, wsClients, broken, events,
          exits, lastBroadcastTime, lastProgress, speedHistory, samples,
          lastLine, allFiles, playlistItems, procItems>>

\* The tables below hold an entry only for the ids whose value is not the
\* initial one: Get reads an entry, Put writes one.
Get(f, j, d) == IF j \in DOMAIN f THEN f[j] ELSE d

Put(f, j, v, d) ==
    [k \in (DOMAIN f \ {j}) \cup (IF v = d THEN {} ELSE {j}) |->
        IF k = j THEN v ELSE f[k]]

\* The entries of the tables, by id.
Clients(j) == Get(wsClients, j, <<>>)
LastEvent(j) == Get(events, j, NoEvent)
ExitCodes(j) == Get(exits, j, <<>>)
LastBroadcast(j) == Get(lastBroadcastTime, j, NoTimer)
LastProgress(j) == Get(lastProgress, j, InitialProgress)
Samples(j) == Get(samples, j, <<>>)
LastLine(j) == Get(lastLine, j, NoLine)
AllFiles(j) == Get(allFiles, j, <<>>)
Items(j) == Get(playlistItems, j, <<>>)
ProcItems(j) == Get(procItems, j, <<>>)

\* The variables of the notification layer and of the progress parser.
socketVars == <<wsClients, broken>>
parseVars == <<lastProgress, speedHistory, samples, lastLine>>

\* The variables of the sockets and of the running downloads, which the
\* persistence layer and the clock leave alone.
runVars == <<wsClients, broken, events, exits, lastBroadcastTime,
             lastProgress, speedHistory, samples, lastLine, allFiles,
             playlistItems, procItems>>

\* ------------------------------------------------------------- helpers

InTable(j) == j \in DOMAIN jobs

StatusOf(jb, j) == IF j \in DOMAIN jb THEN jb[j].status ELSE "none"

\* SetStatus that deletes the entry of the job instead.
SetStatusDeletes(jb, j, s) == [k \in DOMAIN jb \ {j} |-> jb[k]]

\* A task writes job.status on the object it holds.  Ids are never handed out
\* twice, so that object is the one in the table exactly when the id is.
SetStatus(jb, j, s) ==
    IF j \in DOMAIN jb THEN [jb EXCEPT ![j].status = s] ELSE jb

\* RemoveFirst that leaves the queue as it is.
RemoveFirstKeeps(q, j) == q

\* queue.indexOf(jobId) and queue.splice(index, 1).
RECURSIVE RemoveFirst(_, _)
RemoveFirst(q, j) ==
    IF q = <<>> THEN <<>>
    ELSE IF Head(q) = j THEN Tail(q)
    ELSE <<Head(q)>> \o RemoveFirst(Tail(q), j)

InQueue(q, j) == \E i \in 1..Len(q) : q[i] = j

Occurrences(q, j) == Cardinality({i \in 1..Len(q) : q[i] = j})


\* saveState that arms the timer with no delay.
saveStateNoDelay(now) == now

\* saveState(): clearTimeout, then setTimeout(..., 1000).
saveState(now) == now + SAVE_DELAY

\* No saveState call and no write has happened yet; `writing` holds the
\* documents of the writeFile calls that have not resolved.
NoSaves ==
    [start |-> NoTimer, last |-> NoTimer, since |-> 0, at |-> NoTimer,
     writing |-> <<>>]

\* The record after a saveState call at `now`: a call less than SAVE_DELAY
\* after the previous one continues its burst, any other call starts one.
Mutated(sv, now) ==
    [sv EXCEPT !.start = IF sv.last # NoTimer /\ now - sv.last < SAVE_DELAY
                         THEN @ ELSE now,
               !.last = now,
               !.since = 0]

\* The record after the timer callback started a write at `now`.
Wrote(sv, now) == [sv EXCEPT !.since = @ + 1, !.at = now]

\* --------------------------------------------------------- processQueue
\* SlotFree with the comparison off by one.
SlotFreeOffByOne(act) == Cardinality(act) <= MAX_CONCURRENT

\* processQueue that starts the head of the queue and leaves it in the queue.
processQueueKeepsHead(q, act, jb) ==
    IF q # <<>> /\ Cardinality(act) < MAX_CONCURRENT
    THEN [queue |-> q, active |-> act \cup {Head(q)},
          jobs |-> SetStatus(jb, Head(q), "downloading"),
          started |-> {Head(q)}]
    ELSE [queue |-> q, active |-> act, jobs |-> jb, started |-> {}]

\* The admission condition of the while loop.
SlotFree(act) == Cardinality(act) < MAX_CONCURRENT

\* processQueue, with the synchronous start of executeDownload (status :=
\* "downloading") of every job it admits.
RECURSIVE processQueue(_, _, _)
processQueue(q, act, jb) ==
    IF q = <<>> \/ ~SlotFree(act)
    THEN [queue |-> q, active |-> act, jobs |-> jb, started |-> {}]
    ELSE LET id == Head(q) IN
         IF id \notin DOMAIN jb \/ jb[id].status # "pending"
         THEN processQueue(Tail(q), act, jb)
         ELSE LET r == processQueue(Tail(q), act \cup {id},
                                    [jb EXCEPT ![id].status = "downloading"])
              IN [r EXCEPT !.started = @ \cup {id}]

\* ---------------------------------------------------------------- broadcast
\* deliver that gives up at the first socket whose send() throws.
deliverUntilFailure(clients, brk) ==
    {clients[i] : i \in {k \in 1..Len(clients) :
                            \A m \in 1..k : clients[m] \notin brk}}

\* clients.forEach with the try/catch around ws.send: the sockets that
\* received the message.
deliver(clients, brk) ==
    {clients[i] : i \in {k \in 1..Len(clients) : clients[k] \notin brk}}

\* The record of a job after broadcast(jobId, {type, ...}) at `now`; the
\* call does nothing when the job has no set of clients.
broadcast(ev, clients, brk, type, msg, now, payload) ==
    LET to == deliver(clients, brk)
        progress == type = "download-progress" /\ to # {}
    IN IF clients = <<>> THEN ev ELSE
       [type |-> type, msg |-> msg, subs |-> Range(clients), to |-> to,
        failed |-> Range(clients) \cap brk,
        progress |-> IF progress THEN payload ELSE ev.progress,
        progressAt |-> IF progress THEN now ELSE ev.progressAt,
        early |-> \/ ev.early
                  \/ /\ progress
                     /\ ev.progressAt # NoTimer
                     /\ now - ev.progressAt < BROADCAST_INTERVAL]

\* The state after processQueue ran on (q, act, jb); tk, sn and ev are the
\* task and event tables the caller has already updated.
Admission(q, act, jb, tk, sn, ev) ==
    LET r == processQueue(q, act, jb) IN
    /\ queue' = r.queue
    /\ activeDownloads' = r.active
    /\ jobs' = r.jobs
    /\ task' = [j \in Ids |-> IF j \in r.started THEN "mkdir" ELSE tk[j]]
    /\ sent' = [j \in Ids |-> IF j \in r.started
                              THEN sn[j] \cup {"download-progress"} ELSE sn[j]]
    /\ events' = [j \in DOMAIN ev \cup {k \in r.started : Clients(k) # <<>>} |->
                     IF j \in r.started
                     THEN broadcast(Get(ev, j, NoEvent), Clients(j), broken,
                                    "download-progress", <<>>, clock,
                                    <<r.jobs[j].progress>>)
                     ELSE ev[j]]
    /\ admitted' = admitted \cup r.started

\* ------------------------------------------------------------- Init

TypeOK ==
    /\ DOMAIN jobs \subseteq Ids
    /\ activeDownloads \subseteq Ids
    /\ activeProcesses \subseteq Ids
    /\ nextId \in Ids \cup {MaxId + 1}

\* The variables of the persistence layer that a step of the queue leaves alone.
diskVars == <<stateFile, backups, loadPc>>

\* ------------------------------------------------------ YtDlpCli.download
\* `let wasCancelled = false`: the flag is never assigned again.
wasCancelled == FALSE

\* The promise of download() resolved with a file list, or rejected with an
\* Error whose String() is msg.
Resolved(files) == [ok |-> TRUE, msg |-> <<>>, files |-> files]
Rejected(msg) == [ok |-> FALSE, msg |-> msg, files |-> <<>>]

\* What the promise of download() settles with once the process has exited
\* with `code`, having printed the destinations `files`.
downloadOutcome(code, files) ==
    IF code # 0 /\ ~wasCancelled
    THEN Rejected(Words(<<"Error: yt-dlp failed with exit code ">>, code))
    ELSE IF wasCancelled
    THEN Rejected(<<"Error: Download was ", "cancelled">>)
    ELSE Resolved(files)

\* The file a process started for job j with the playlist items `args` writes.
FileOf(j, args) == [job |-> j, items |-> args]

\* errorMsg.includes("cancelled")
includesCancelled(msg) == "cancelled" \in Range(msg)

\* The catch block of executeDownload: the status it sets, the event it sends.
catchStatus(msg) == IF includesCancelled(msg) THEN "cancelled" ELSE "failed"

\* catchEvent that reports every error as progress.
catchEventAsProgress(msg) == "download-progress"

catchEvent(msg) ==
    IF includesCancelled(msg) THEN "download-cancelled" ELSE "download-error"

\* completedProgress that leaves the percent as the last line set it.
completedProgressKept(progress) == progress

\* `job.progress.percent = 100` at the end of a download that resolved.
completedProgress(progress) == [progress EXCEPT !.percent = Pct(100, 1)]

\* The job object after the end of executeDownload.
settleJob(job, outcome) ==
    IF outcome.ok
    THEN [job EXCEPT !.status = "completed", !.files = outcome.files,
                     !.progress = completedProgress(@)]
    ELSE IF catchStatus(outcome.msg) = "failed"
    THEN [job EXCEPT !.status = "failed", !.error = outcome.msg]
    ELSE [job EXCEPT !.status = catchStatus(outcome.msg)]

\* releaseSlot that keeps the id in the active set.
releaseSlotKeeps(act, j) == act

\* The .finally() of processQueue: this.activeDownloads.delete(jobId).
releaseSlot(act, j) == act \ {j}

\* executeDownload from the point where the awaited download (or mkdir)
\* settles with `outcome`, to the end of the .finally() of processQueue.
Settle(j, outcome) ==
    LET jb == IF InTable(j) THEN [jobs EXCEPT ![j] = settleJob(@, outcome)]
              ELSE jobs
        ty == IF outcome.ok THEN "download-complete"
              ELSE catchEvent(outcome.msg)
        msg == IF ty = "download-error" THEN outcome.msg ELSE <<>>
        sn == [sent EXCEPT ![j] = @ \cup {ty}]
        ev == Put(events, j,
                  broadcast(LastEvent(j), Clients(j), broken, ty, msg, clock,
                            <<>>),
                  NoEvent)
        tk == [task EXCEPT ![j] = "done"]
    IN /\ Admission(queue, releaseSlot(activeDownloads, j), jb, tk, sn, ev)
       /\ saveTimeout' = saveState(clock)
       /\ saves' = Mutated(saves, clock)

\* ----------------------------------------------------------- addDownload
\* What the yt-dlp run of detectType gives: a type, or a failure (a non-zero
\* exit, no output, output that is not JSON); and what the one of getMetadata
\* gives: metadata with a title, or a failure.
Detections == {"video", "playlist", "fail"}
Fetches == {"ok", "fail"}

\* detectType: its catch block turns every failure into "video".
detectType(detected) == IF detected = "fail" THEN "video" ELSE detected

\* The title addDownload takes from getMetadata, whose errors it catches.
fetchTitle(fetched) == IF fetched = "fail" THEN <<>> ELSE <<"Title">>

\* prefetchFatal that lets the error of getMetadata reject addDownload.
prefetchFatalRethrown(fetched) == fetched = "fail"

\* Whether the outcome of getMetadata makes addDownload reject: never, the
\* call is in a try block whose catch only logs.
prefetchFatal(fetched) == FALSE

\* addDownload for a request whose detectType and getMetadata runs gave
\* `detected` and `fetched`; a per-item request (pi) comes with its playlist
\* item list.  The id is generated first, then the awaits, then the
\* synchronous tail.
SubmitWith(cap, pi, detected, fetched) ==
    /\ nextId <= cap
    /\ nextId' = nextId + 1
    /\ IF prefetchFatal(fetched)
       THEN UNCHANGED <<jobs, queue, activeDownloads, task, sent, events,
                        admitted, playlistItems, perItem, saveTimeout, saves>>
       ELSE /\ LET id == nextId
                   jb == [k \in DOMAIN jobs \cup {id} |->
                            IF k = id
                            THEN JobOf(detectType(detected),
                                       fetchTitle(fetched))
                            ELSE jobs[k]]
               IN Admission(Append(queue, id), activeDownloads, jb, task,
                            sent, events)
            /\ \E items \in IF pi THEN ItemLists ELSE {<<>>} :
                  playlistItems' = Put(playlistItems, nextId, items, <<>>)
            /\ perItem' = IF pi THEN perItem \cup {nextId} ELSE perItem
            /\ saveTimeout' = saveState(clock)
            /\ saves' = Mutated(saves, clock)
    /\ UNCHANGED <<activeProcesses, item, proc, clock, spawns, cancelRet,
                   diskVars, socketVars, parseVars, exits, lastBroadcastTime,
                   allFiles, procItems>>

\* addDownload for a single video whose metadata is fetched.
Submit(cap, pi) == SubmitWith(cap, pi, "video", "ok")

\* -------------------------------------------------------- executeDownload
\* `now - lastBroadcastTime >= BROADCAST_INTERVAL`.  lastBroadcastTime starts
\* at 0 of the epoch, which NoTimer stands for: Date.now() is far beyond it.
ThrottleOpen(last, now) ==
    last = NoTimer \/ now - last >= BROADCAST_INTERVAL

\* progressPayload that sends the progress the job had before the call.
progressPayloadStale(progress, stored) == stored

\* The progress in the payload of the notification onProgress broadcasts: its
\* argument (`stored` is job.progress before the call).
progressPayload(progress, stored) == progress

\* The onProgress callback of executeDownload, called within one step with
\* each of `calls` in turn while lastBroadcastTime of the task is `last`:
\* job.progress ends as the last value, and the first value is broadcast
\* when the throttle is open (it is closed for the values after it, which
\* come within the same millisecond).
onProgressAll(j, calls, last) ==
    IF calls = <<>>
    THEN /\ lastBroadcastTime' = Put(lastBroadcastTime, j, last, NoTimer)
         /\ UNCHANGED <<jobs, events, sent>>
    ELSE /\ jobs' = IF InTable(j)
                    THEN [jobs EXCEPT ![j].progress = calls[Len(calls)]]
                    ELSE jobs
         /\ IF ThrottleOpen(last, clock)
            THEN /\ lastBroadcastTime' =
                        Put(lastBroadcastTime, j, clock, NoTimer)
                 /\ events' = Put(events, j,
                                  broadcast(LastEvent(j), Clients(j), broken,
                                            "download-progress", <<>>, clock,
                                            <<progressPayload(calls[1],
                                                IF InTable(j)
                                                THEN jobs[j].progress
                                                ELSE InitialProgress)>>),
                                  NoEvent)
                 /\ sent' = [sent EXCEPT ![j] = @ \cup {"download-progress"}]
            ELSE /\ lastBroadcastTime' =
                        Put(lastBroadcastTime, j, last, NoTimer)
                 /\ UNCHANGED <<events, sent>>

\* One call of the callback.
onProgress(j, progress, last) == onProgressAll(j, <<progress>>, last)

\* itemArgs that hands the whole item list to the process.
itemArgsWholeList(items, n) == items

\* The playlist items the per-item loop gives the process of its item number
\* n: `[itemIndex]`.
itemArgs(items, n) == <<items[n]>>

\* The progress the per-item loop reports when it starts its item number n.
itemStart(n, total) ==
    [percent |-> Pct(0, 1), currentVideo |-> n, totalVideos |-> total,
     speed |-> <<>>]

\* overallPercent of the per-item loop:
\* ((completedItems - 1) / totalItems) * 100 + itemProgress.percent / totalItems.
overallPercent(completedItems, totalItems, percent) ==
    Pct((completedItems - 1) * 100 * percent.den + percent.num,
        totalItems * percent.den)

\* unregister that leaves the handle in the registry.
unregisterKeeps(reg, j) == reg

\* this.activeProcesses.delete(downloadId): the finally block of download,
\* and cancelDownload after the kill.
unregister(reg, j) == reg \ {j}

\* YtDlpCli.download up to its first await: the process is spawned with the
\* playlist items `args`, its handle is stored, lastProgress and the speed
\* history start afresh.
Spawn(j, args) ==
    /\ proc' = [proc EXCEPT ![j] = "running"]
    /\ activeProcesses' = activeProcesses \cup {j}
    /\ spawns' = [spawns EXCEPT ![j] = @ + 1]
    /\ procItems' = Put(procItems, j, Append(ProcItems(j), args), <<>>)
    /\ lastProgress' = Put(lastProgress, j, InitialProgress, InitialProgress)
    /\ speedHistory' = <<>>
    /\ samples' = Put(samples, j, <<>>, <<>>)
    /\ lastLine' = Put(lastLine, j, NoLine, NoLine)

\* `await mkdir` resolved: the standard download spawns its process; the
\* per-item loop reports the start of its first item and spawns its process.
MkdirDone(j) ==
    /\ task[j] = "mkdir"
    /\ task' = [task EXCEPT ![j] = "download"]
    /\ IF j \in perItem
       THEN /\ item' = [item EXCEPT ![j] = 1]
            /\ onProgress(j, itemStart(1, Len(Items(j))), NoTimer)
            /\ Spawn(j, itemArgs(Items(j), 1))
       ELSE /\ item' = [item EXCEPT ![j] = 0]
            /\ lastBroadcastTime' = Put(lastBroadcastTime, j, NoTimer, NoTimer)
            /\ Spawn(j, <<>>)
            /\ UNCHANGED <<jobs, events, sent>>
    /\ allFiles' = Put(allFiles, j, <<>>, <<>>)
    /\ UNCHANGED <<queue, activeDownloads, perItem, nextId, clock,
                   saveTimeout, saves, admitted, cancelRet, diskVars,
                   socketVars, exits, playlistItems>>

\* `await mkdir` rejected: the catch block, then the finally of processQueue.
MkdirFail(j) ==
    /\ task[j] = "mkdir"
    /\ Settle(j, Rejected(<<"Error: EACCES: permission denied, mkdir">>))
    /\ UNCHANGED <<activeProcesses, perItem, item, proc, nextId, clock,
                   spawns, cancelRet, diskVars, socketVars, parseVars, exits,
                   lastBroadcastTime, allFiles, playlistItems, procItems>>

\* avgSpeed.toFixed(2), in hundredths: the mean of the history rounded to two
\* decimals.
RECURSIVE Sum(_)
Sum(s) == IF s = <<>> THEN 0 ELSE Head(s) + Sum(Tail(s))

toFixed2(sum, n) == (200 * sum + n) \div (2 * n)

\* The speed part of parseProgress: the raw sample is pushed on the history,
\* the oldest sample is shifted out beyond SPEED_HISTORY_SIZE, the reported
\* speed is the mean of the history.
parseSpeed(hist, raw) ==
    LET pushed == Append(hist, raw)
        h == IF Len(pushed) > SPEED_HISTORY_SIZE THEN Tail(pushed) ELSE pushed
    IN [history |-> h, speed |-> <<toFixed2(Sum(h), Len(h))>>]

\* The speed samples the running downloads of the ids up to n have parsed.
RECURSIVE SampleCount(_)
SampleCount(n) == IF n = 0 THEN 0 ELSE Len(Samples(n)) + SampleCount(n - 1)

\* parseProgress: null (the empty sequence) when the line has no percent,
\* else the percent together with the speed, smoothed over the history, when
\* the line has one.
parseProgress(hist, line) ==
    IF line.percent = <<>> THEN [history |-> hist, progress |-> <<>>]
    ELSE LET parsed == IF line.speed = <<>>
                       THEN [history |-> hist, speed |-> <<>>]
                       ELSE parseSpeed(hist, line.speed[1])
         IN [history |-> parsed.history,
             progress |-> <<[percent |-> Pct(line.percent[1], 1),
                             speed |-> parsed.speed]>>]

\* processLine that makes no callback for a line without a percent.
processLineSilent(lp, hist, line) ==
    LET parsed == parseProgress(hist, line) IN
    IF ~line.tag \/ parsed.progress = <<>>
    THEN [lastProgress |-> lp, history |-> hist, calls |-> <<>>]
    ELSE LET merged == [lp EXCEPT
                          !.percent = parsed.progress[1].percent,
                          !.speed = IF parsed.progress[1].speed = <<>> THEN @
                                    ELSE parsed.progress[1].speed]
         IN [lastProgress |-> merged, history |-> parsed.history,
             calls |-> <<merged>>]

\* The body of the loop over the lines of processOutput: a line without
\* "[download]" is skipped; a parsed progress is merged into lastProgress and
\* passed to onProgress; an "N of M" announcement (in either of its two
\* forms) sets the counters of lastProgress and passes it to onProgress.
\* The result holds lastProgress, the speed history and the values passed to
\* onProgress, in order.
processLine(lp, hist, line) ==
    IF ~line.tag
    THEN [lastProgress |-> lp, history |-> hist, calls |-> <<>>]
    ELSE LET parsed == parseProgress(hist, line)
             merged == IF parsed.progress = <<>> THEN lp
                       ELSE [lp EXCEPT
                               !.percent = parsed.progress[1].percent,
                               !.speed = IF parsed.progress[1].speed = <<>>
                                         THEN @
                                         ELSE parsed.progress[1].speed]
             first == IF parsed.progress = <<>> THEN <<>> ELSE <<merged>>
             counted == IF line.announce = <<>> THEN merged
                        ELSE [merged EXCEPT
                                !.currentVideo = line.announce[1],
                                !.totalVideos = line.announce[2]]
             second == IF line.announce = <<>> THEN <<>> ELSE <<counted>>
         IN [lastProgress |-> counted, history |-> parsed.history,
             calls |-> first \o second]

\* The callback a download call of job j is given: the onProgress of
\* executeDownload for a standard job, and for a per-item job the wrapper of
\* the loop, which puts the overall percent and the loop counters in place.
callerProgress(j, progress) ==
    IF j \in perItem
    THEN [progress EXCEPT
             !.percent = overallPercent(item[j], Len(Items(j)),
                                        progress.percent),
             !.currentVideo = item[j],
             !.totalVideos = Len(Items(j))]
    ELSE progress

\* One output line of the running process of job j: processLine, and the
\* onProgress calls it makes.
OutputLine(j, line) ==
    /\ task[j] = "download"
    /\ proc[j] # "none"
    /\ SampleCount(MaxId) < MaxSamples
    /\ LET r == processLine(LastProgress(j), speedHistory, line)
           calls == [k \in 1..Len(r.calls) |-> callerProgress(j, r.calls[k])]
       IN /\ speedHistory' = r.history
          /\ lastProgress' = Put(lastProgress, j, r.lastProgress,
                                 InitialProgress)
          /\ samples' = Put(samples, j,
                            IF line.tag /\ line.percent # <<>>
                            THEN Samples(j) \o line.speed ELSE Samples(j),
                            <<>>)
          /\ lastLine' = Put(lastLine, j,
                             [line |-> line, calls |-> Len(calls)], NoLine)
          /\ onProgressAll(j, calls, LastBroadcast(j))
    /\ UNCHANGED <<queue, activeDownloads, activeProcesses, perItem, task,
                   item, proc, nextId, clock, saveTimeout, saves, admitted,
                   spawns, cancelRet, diskVars, socketVars, exits, allFiles,
                   playlistItems, procItems>>

\* A "[download] p% ..." line of the running process, with the raw speed
\* sp (or none).
ProgressLine(j, p, sp) == OutputLine(j, Line(TRUE, <<p>>, sp, <<>>))

\* The process of a standard job exited with `code`.
ExitStandard(j, code) ==
    /\ task[j] = "download"
    /\ proc[j] \in {"running", "killed"}
    /\ j \notin perItem
    /\ proc' = [proc EXCEPT ![j] = "none"]
    /\ activeProcesses' = unregister(activeProcesses, j)
    /\ exits' = Put(exits, j, Append(ExitCodes(j), code), <<>>)
    /\ Settle(j, downloadOutcome(code, <<FileOf(j, <<>>)>>))
    /\ UNCHANGED <<perItem, item, nextId, clock, spawns, cancelRet,
                   diskVars, socketVars, parseVars, lastBroadcastTime,
                   allFiles, playlistItems, procItems>>

\* pushFiles that keeps only the files of the last item.
pushFilesReplaces(all, out) == out.files

\* allFiles after the download of an item settled with `out`:
\* allFiles.push(...files) when it resolved, nothing when it threw.
pushFiles(all, out) == IF out.ok THEN all \o out.files ELSE all

\* The download of one item of a per-item job settled with `out`, leaving its
\* process `left`: the files of a successful item are pushed on allFiles, the
\* error of a failed one is swallowed; the loop goes on with the next item,
\* or returns allFiles.
ItemSettled(j, out, left) ==
    LET items == Items(j)
        all == pushFiles(AllFiles(j), out)
    IN /\ allFiles' = Put(allFiles, j, all, <<>>)
       /\ IF item[j] < Len(items)
          THEN /\ item' = [item EXCEPT ![j] = @ + 1]
               /\ onProgress(j, itemStart(item[j] + 1, Len(items)),
                             LastBroadcast(j))
               /\ Spawn(j, itemArgs(items, item[j] + 1))
               /\ UNCHANGED <<queue, activeDownloads, task, saveTimeout,
                              saves, admitted>>
          ELSE /\ proc' = [proc EXCEPT ![j] = left]
               /\ activeProcesses' = unregister(activeProcesses, j)
               /\ Settle(j, Resolved(all))
               /\ UNCHANGED <<item, spawns, parseVars, lastBroadcastTime,
                              procItems>>

\* The process of one item of a per-item job exited with `code`.
ExitItem(j, code) ==
    /\ task[j] = "download"
    /\ proc[j] \in {"running", "killed"}
    /\ j \in perItem
    /\ exits' = Put(exits, j, Append(ExitCodes(j), code), <<>>)
    /\ ItemSettled(j, downloadOutcome(code,
                          <<FileOf(j, itemArgs(Items(j), item[j]))>>), "none")
    /\ UNCHANGED <<perItem, nextId, clock, cancelRet, diskVars, socketVars,
                   playlistItems>>

\* reader.read() of a stream of the running process throws: download rejects
\* with that error after its finally block; nothing kills the process, which
\* runs on with no one awaiting it.
StreamError(j) ==
    /\ task[j] = "download"
    /\ proc[j] = "running"
    /\ IF j \in perItem
       THEN ItemSettled(j, Rejected(<<"Error: read failed">>), "orphan")
       ELSE /\ proc' = [proc EXCEPT ![j] = "orphan"]
            /\ activeProcesses' = unregister(activeProcesses, j)
            /\ Settle(j, Rejected(<<"Error: read failed">>))
            /\ UNCHANGED <<item, spawns, parseVars, lastBroadcastTime,
                           allFiles, procItems>>
    /\ UNCHANGED <<perItem, nextId, clock, cancelRet, diskVars, socketVars,
                   exits, playlistItems>>

\* A process that no download call awaits any more exits.
OrphanExit(j) ==
    /\ proc[j] = "orphan"
    /\ proc' = [proc EXCEPT ![j] = "none"]
    /\ UNCHANGED <<jobs, queue, activeDownloads, activeProcesses, perItem,
                   task, item, nextId, sent, clock, saveTimeout, saves,
                   admitted, spawns, cancelRet, diskVars, runVars>>

\* --------------------------------------------------------- cancelDownload
\* A call of cancelDownload that returns false: nothing is assigned.
Declined(jb, q, reg) ==
    [ret |-> FALSE, jobs |-> jb, queue |-> q, registry |-> reg,
     event |-> "none", saved |-> FALSE]

\* cancelDownload that marks a "downloading" job "cancelled" before it knows
\* whether a process was killed.
cancelDownloadMarksFirst(jb, q, reg, j, killThrows) ==
    IF j \notin DOMAIN jb THEN Declined(jb, q, reg)
    ELSE IF jb[j].status = "pending"
    THEN [ret |-> TRUE, jobs |-> SetStatus(jb, j, "cancelled"),
          queue |-> RemoveFirst(q, j), registry |-> reg,
          event |-> "download-cancelled", saved |-> TRUE]
    ELSE IF jb[j].status = "downloading"
    THEN IF j \in reg /\ ~killThrows
         THEN [ret |-> TRUE, jobs |-> SetStatus(jb, j, "cancelled"),
               queue |-> q, registry |-> unregister(reg, j),
               event |-> "download-cancelled", saved |-> TRUE]
         ELSE [Declined(jb, q, reg) EXCEPT
                  !.jobs = SetStatus(jb, j, "cancelled")]
    ELSE Declined(jb, q, reg)

\* DownloadQueueManager.cancelDownload(j) on the job table jb, the queue q
\* and the process registry reg, where proc.kill() throws or not: what it
\* returns, the tables after it, the event it broadcasts and whether it calls
\* saveState.  YtDlpCli.cancelDownload returns true when it finds a handle
\* under j and kill() does not throw; it then deletes the handle.
cancelDownload(jb, q, reg, j, killThrows) ==
    IF j \notin DOMAIN jb THEN Declined(jb, q, reg)
    ELSE IF jb[j].status = "pending"
    THEN [ret |-> TRUE, jobs |-> SetStatus(jb, j, "cancelled"),
          queue |-> RemoveFirst(q, j), registry |-> reg,
          event |-> "download-cancelled", saved |-> TRUE]
    ELSE IF jb[j].status = "downloading"
    THEN IF j \in reg /\ ~killThrows
         THEN [ret |-> TRUE, jobs |-> SetStatus(jb, j, "cancelled"),
               queue |-> q, registry |-> unregister(reg, j),
               event |-> "download-cancelled", saved |-> TRUE]
         ELSE Declined(jb, q, reg)
    ELSE Declined(jb, q, reg)

\* The call on job j in the current state, with a kill() that works.
Cancelled(j) == cancelDownload(jobs, queue, activeProcesses, j, FALSE)

\* The "pending" branch.
CancelPending(j) ==
    /\ StatusOf(jobs, j) = "pending"
    /\ LET r == Cancelled(j)
       IN r.ret /\ queue' = r.queue /\ jobs' = r.jobs
    /\ sent' = [sent EXCEPT ![j] = @ \cup {"download-cancelled"}]
    /\ events' = Put(events, j,
                     broadcast(LastEvent(j), Clients(j), broken,
                               "download-cancelled", <<>>, clock, <<>>),
                     NoEvent)
    /\ cancelRet' = [cancelRet EXCEPT ![j] = "pending"]
    /\ saveTimeout' = saveState(clock)
    /\ saves' = Mutated(saves, clock)
    /\ UNCHANGED <<activeDownloads, activeProcesses, perItem, task, item, proc,
                   nextId, clock, admitted, spawns, diskVars, socketVars,
                   parseVars, exits, lastBroadcastTime, allFiles,
                   playlistItems, procItems>>

\* The "downloading" branch when YtDlpCli.cancelDownload finds a handle.
CancelDownloading(j) ==
    /\ StatusOf(jobs, j) = "downloading"
    /\ j \in activeProcesses
    /\ LET r == Cancelled(j)
       IN r.ret /\ activeProcesses' = r.registry /\ jobs' = r.jobs
    /\ proc' = [proc EXCEPT ![j] = "killed"]
    /\ sent' = [sent EXCEPT ![j] = @ \cup {"download-cancelled"}]
    /\ events' = Put(events, j,
                     broadcast(LastEvent(j), Clients(j), broken,
                               "download-cancelled", <<>>, clock, <<>>),
                     NoEvent)
    /\ cancelRet' = [cancelRet EXCEPT ![j] = "downloading"]
    /\ saveTimeout' = saveState(clock)
    /\ saves' = Mutated(saves, clock)
    /\ UNCHANGED <<queue, activeDownloads, perItem, task, item, nextId, clock,
                   admitted, spawns, diskVars, socketVars, parseVars, exits,
                   lastBroadcastTime, allFiles, playlistItems, procItems>>

\* The calls that return false: an unknown id, a job that is neither
\* "pending" nor "downloading", a "downloading" job without a handle.
Refused(j) ==
    \/ StatusOf(jobs, j) \notin {"pending", "downloading"}
    \/ StatusOf(jobs, j) = "downloading" /\ j \notin activeProcesses

\* A call that returns false: what cancelDownload leaves of the tables.
CancelRefused ==
    /\ \E j \in Ids :
          /\ Refused(j)
          /\ LET r == Cancelled(j)
             IN /\ ~r.ret
                /\ jobs' = r.jobs
                /\ queue' = r.queue
                /\ activeProcesses' = r.registry
    /\ UNCHANGED <<activeDownloads, perItem, task, item, proc, nextId, sent,
                   clock, saveTimeout, saves, admitted, spawns, cancelRet,
                   diskVars, runVars>>

\* ------------------------------------------------------------- clearQueue
\* The ids of the active set on which cancelDownload succeeds.
Killable == {j \in activeDownloads :
                StatusOf(jobs, j) = "downloading" /\ j \in activeProcesses}

ClearQueue ==
    /\ proc' = [j \in Ids |-> IF j \in Killable THEN "killed" ELSE proc[j]]
    /\ activeProcesses' = activeProcesses \ Killable
    /\ sent' = [j \in Ids |-> IF j \in Killable
                              THEN sent[j] \cup {"download-cancelled"}
                              ELSE sent[j]]
    /\ events' = [j \in DOMAIN events \cup {k \in Killable : Clients(k) # <<>>} |->
                     IF j \in Killable
                     THEN broadcast(LastEvent(j), Clients(j), broken,
                                    "download-cancelled", <<>>, clock, <<>>)
                     ELSE LastEvent(j)]
    /\ cancelRet' = [j \in Ids |-> IF j \in Killable THEN "downloading"
                                   ELSE cancelRet[j]]
    /\ jobs' = <<>>
    /\ queue' = <<>>
    /\ activeDownloads' = {}
    /\ wsClients' = <<>>
    /\ saveTimeout' = saveState(clock)
    /\ saves' = Mutated(saves, clock)
    /\ UNCHANGED <<perItem, task, item, nextId, clock, admitted, spawns,
                   diskVars, broken, parseVars, exits, lastBroadcastTime,
                   allFiles, playlistItems, procItems>>

\* ----------------------------------------------------- WebSocket handlers
\* subscribeToJob: Set.add on the set of the job, created when missing.  A
\* client learns an id from the reply to its download request.
Subscribe(j, ws) ==
    /\ j < nextId
    /\ wsClients' = Put(wsClients, j,
                        IF ws \in Range(Clients(j)) THEN Clients(j)
                        ELSE Append(Clients(j), ws),
                        <<>>)
    /\ UNCHANGED <<jobs, queue, activeDownloads, activeProcesses, perItem,
                   task, item, proc, nextId, sent, clock, saveTimeout, saves,
                   admitted, spawns, cancelRet, diskVars, broken, events,
                   parseVars, exits, lastBroadcastTime, allFiles,
                   playlistItems, procItems>>

\* unsubscribeFromJob(id, ws) for every id of `ids`: clients.delete(ws), and
\* the entry of the job is deleted when no client is left.
Unsubscribed(clients, ids, ws) ==
    LET left(j) == IF j \in ids
                   THEN SelectSeq(clients[j], LAMBDA w : w # ws)
                   ELSE clients[j]
    IN [j \in {k \in DOMAIN clients : left(k) # <<>>} |-> left(j)]

\* The close handler: unsubscribeFromJob for every job of the table.
Close(ws) ==
    /\ \E j \in DOMAIN jobs : ws \in Range(Clients(j))
    /\ wsClients' = Unsubscribed(wsClients, DOMAIN jobs, ws)
    /\ UNCHANGED <<jobs, queue, activeDownloads, activeProcesses, perItem,
                   task, item, proc, nextId, sent, clock, saveTimeout, saves,
                   admitted, spawns, cancelRet, diskVars, broken, events,
                   parseVars, exits, lastBroadcastTime, allFiles,
                   playlistItems, procItems>>

\* The connection of a socket breaks: from now on its send() throws.
Break(ws) ==
    /\ ws \notin broken
    /\ broken' = broken \cup {ws}
    /\ UNCHANGED <<jobs, queue, activeDownloads, activeProcesses, perItem,
                   task, item, proc, nextId, sent, clock, saveTimeout, saves,
                   admitted, spawns, cancelRet, diskVars, wsClients, events,
                   parseVars, exits, lastBroadcastTime, allFiles,
                   playlistItems, procItems>>

\* -------------------------------------------------------------- saveState
\* The document the timer callback of saveState writes.
Snapshot == [kind |-> "state", raw |-> "", jobs |-> jobs, queue |-> queue]

\* The timer callback of saveState, with the passing of time left out: an
\* armed timer may fire at any moment.
TimerFire ==
    /\ saveTimeout # NoTimer
    /\ stateFile' = Snapshot
    /\ saveTimeout' = NoTimer
    /\ saves' = Wrote(saves, clock)
    /\ UNCHANGED <<jobs, queue, activeDownloads, activeProcesses, perItem,
                   task, item, proc, nextId, sent, clock, backups, loadPc,
                   admitted, spawns, cancelRet, runVars>>

\* The timer callback of saveState up to its await: the document is built
\* and writeFile is called.  saveTimeout keeps the handle of the fired timer,
\* which clearTimeout ignores: NoTimer stands for it.
WriteStart ==
    /\ saveTimeout # NoTimer
    /\ saveTimeout' = NoTimer
    /\ saves' = [Wrote(saves, clock) EXCEPT !.writing = Append(@, Snapshot)]
    /\ UNCHANGED <<jobs, queue, activeDownloads, activeProcesses, perItem,
                   task, item, proc, nextId, sent, clock, stateFile, backups,
                   loadPc, admitted, spawns, cancelRet, runVars>>

\* A sequence without its element number i.
Without(q, i) == SubSeq(q, 1, i - 1) \o SubSeq(q, i + 1, Len(q))

\* writeFile number i of those in progress resolves: the file holds its
\* document.
WriteEnd(i) ==
    /\ i \in 1..Len(saves.writing)
    /\ stateFile' = saves.writing[i]
    /\ saves' = [saves EXCEPT !.writing = Without(@, i)]
    /\ UNCHANGED <<jobs, queue, activeDownloads, activeProcesses, perItem,
                   task, item, proc, nextId, sent, clock, saveTimeout,
                   backups, loadPc, admitted, spawns, cancelRet, runVars>>

\* -------------------------------------------------------------- loadState
\* restoreJob that sets the job of the document as it is.
restoreJobAsSaved(job) == job

\* The forEach over state.jobs: a "downloading" job becomes "pending".
restoreJob(job) ==
    IF job.status = "downloading" THEN [job EXCEPT !.status = "pending"]
    ELSE job

\* this.jobs after the forEach: every job of the document is set under its id.
restoreJobs(jb, doc) ==
    [k \in DOMAIN jb \cup DOMAIN doc |->
        IF k \in DOMAIN doc THEN restoreJob(doc[k]) ELSE jb[k]]

\* state.queue.filter(...): the ids whose job exists and is "pending".
restoreQueue(q, jb) ==
    SelectSeq(q, LAMBDA id : id \in DOMAIN jb /\ jb[id].status = "pending")

\* backupContent that writes nothing of the document.
backupContentEmpty(data) == ""

\* What is written to the backup path for an unparsable document.
backupContent(data) == data

\* The server process stops (all tasks, timers and tables are lost) and is
\* started again: the constructor calls loadState, which suspends on readFile
\* when the snapshot file exists.
Restart ==
    /\ jobs' = <<>>
    /\ queue' = <<>>
    /\ activeDownloads' = {}
    /\ activeProcesses' = {}
    /\ task' = [j \in Ids |-> "idle"]
    /\ item' = [j \in Ids |-> 0]
    /\ proc' = [j \in Ids |-> "none"]
    /\ saveTimeout' = NoTimer
    /\ saves' = NoSaves
    /\ loadPc' = IF stateFile.kind = "missing" THEN "done" ELSE "reading"
    /\ sent' = [j \in Ids |-> {}]
    /\ admitted' = {}
    /\ spawns' = [j \in Ids |-> 0]
    /\ cancelRet' = [j \in Ids |-> "none"]
    /\ wsClients' = <<>>
    /\ broken' = {}
    /\ events' = <<>>
    /\ exits' = <<>>
    /\ lastBroadcastTime' = <<>>
    /\ lastProgress' = <<>>
    /\ speedHistory' = <<>>
    /\ samples' = <<>>
    /\ lastLine' = <<>>
    /\ allFiles' = <<>>
    /\ procItems' = <<>>
    /\ UNCHANGED <<perItem, nextId, clock, stateFile, backups, playlistItems>>

\* readFile resolved with an empty or all-blank document, or with one that
\* JSON.parse rejects: loadState returns without touching the tables.
LoadNothing ==
    /\ loadPc = "reading"
    /\ stateFile.kind \in {"empty", "blank", "corrupt"}
    /\ loadPc' = "done"
    /\ backups' = IF stateFile.kind = "corrupt"
                  THEN backups \cup {backupContent(stateFile.raw)}
                  ELSE backups
    /\ UNCHANGED <<jobs, queue, activeDownloads, activeProcesses, perItem,
                   task, item, proc, nextId, sent, clock, saveTimeout, saves,
                   stateFile, admitted, spawns, cancelRet, runVars>>

\* readFile resolved with a document written by saveState: the jobs are
\* restored, the queue is rebuilt, processQueue runs.
LoadState ==
    /\ loadPc = "reading"
    /\ stateFile.kind = "state"
    /\ loadPc' = "done"
    /\ LET jb == restoreJobs(jobs, stateFile.jobs)
           q == restoreQueue(stateFile.queue, jb)
       IN /\ Admission(q, activeDownloads, jb, task, sent, events)
          /\ IF processQueue(q, activeDownloads, jb).started # {}
             THEN /\ saveTimeout' = saveState(clock)
                  /\ saves' = Mutated(saves, clock)
             ELSE UNCHANGED <<saveTimeout, saves>>
    /\ UNCHANGED <<activeProcesses, perItem, item, proc, nextId, clock,
                   stateFile, backups, spawns, cancelRet, socketVars,
                   parseVars, exits, lastBroadcastTime, allFiles,
                   playlistItems, procItems>>

\* ------------------------------------------------------- specifications
\* The snapshot file the first start may find: none, an empty one, one of
\* blanks only, or one that is not JSON.
InitialFiles ==
    {NoFile,
     [NoFile EXCEPT !.kind = "empty"],
     [NoFile EXCEPT !.kind = "blank", !.raw = " "],
     [NoFile EXCEPT !.kind = "corrupt", !.raw = "{\"jobs\": ["]}

\* The snapshot an earlier run leaves behind after clearQueue.
EmptySnapshot == [NoFile EXCEPT !.kind = "state"]

\* The snapshot an earlier run leaves behind when it is stopped with every
\* slot taken and one job waiting: job 1 is "downloading", the other jobs up
\* to MAX_CONCURRENT were cancelled and their killed processes had not exited
\* yet, job PriorJobs is "pending" and is the queue.
BusySnapshot ==
    [kind |-> "state", raw |-> "",
     jobs |-> [k \in 1..PriorJobs |->
                 [NewJob EXCEPT
                     !.status = IF k = 1 THEN "downloading"
                                ELSE IF k <= MAX_CONCURRENT THEN "cancelled"
                                ELSE "pending"]],
     queue |-> <<PriorJobs>>]

\* The state after the constructor ran with snapshot file f on disk; `first`
\* is the first id this run hands out.
Started(f, first) ==
    /\ jobs = <<>>
    /\ queue = <<>>
    /\ activeDownloads = {}
    /\ activeProcesses = {}
    /\ perItem = {}
    /\ task = [j \in Ids |-> "idle"]
    /\ item = [j \in Ids |-> 0]
    /\ proc = [j \in Ids |-> "none"]
    /\ nextId = first
    /\ sent = [j \in Ids |-> {}]
    /\ clock = 0
    /\ saveTimeout = NoTimer
    /\ saves = NoSaves
    /\ stateFile = f
    /\ backups = {}
    /\ loadPc = IF f.kind = "missing" THEN "done" ELSE "reading"
    /\ admitted = {}
    /\ spawns = [j \in Ids |-> 0]
    /\ cancelRet = [j \in Ids |-> "none"]
    /\ wsClients = <<>>
    /\ broken = {}
    /\ events = <<>>
    /\ exits = <<>>
    /\ lastBroadcastTime = <<>>
    /\ lastProgress = <<>>
    /\ speedHistory = <<>>
    /\ samples = <<>>
    /\ lastLine = <<>>
    /\ allFiles = <<>>
    /\ playlistItems = <<>>
    /\ procItems = <<>>

\* Spec: one run of the server with standard jobs, started with no snapshot
\* file or with the snapshot of an earlier run that ended with no jobs.
Init == \E f \in {NoFile, EmptySnapshot} : Started(f, 1)

Next ==
    \/ Submit(NumJobs, FALSE)
    \/ \E j \in Ids : MkdirDone(j)
    \/ \E j \in Ids : MkdirFail(j)
    \/ \E j \in Ids, code \in {0, 1} : ExitStandard(j, code)
    \/ \E j \in Ids : CancelPending(j)
    \/ \E j \in Ids : CancelDownloading(j)
    \/ CancelRefused
    \/ LoadState

Spec == Init /\ [][Next]_vars

\* RunSpec: one run of the server started with no snapshot file, with
\* standard and per-item jobs and with clearQueue.  It creates fewer ids than
\* there are slots, so no job ever waits and cancel never finds one "pending".
InitRun == Started(NoFile, 1)

NextRun ==
    \/ \E pi \in BOOLEAN : Submit(RunJobs, pi)
    \/ \E j \in Ids : MkdirDone(j)
    \/ \E j \in Ids : MkdirFail(j)
    \/ \E j \in Ids, code \in {0, 1} : ExitStandard(j, code)
    \/ \E j \in Ids, code \in {0, 1} : ExitItem(j, code)
    \/ \E j \in Ids : CancelDownloading(j)
    \/ CancelRefused
    \/ ClearQueue

RunSpec == InitRun /\ [][NextRun]_vars

\* RestartSpec: runs of the server with its snapshot file, across restarts.
InitRestart == \E f \in InitialFiles : Started(f, 1)

NextRestart ==
    \/ Submit(RestartJobs, FALSE)
    \/ \E j \in Ids : MkdirDone(j)
    \/ \E j \in Ids : MkdirFail(j)
    \/ \E j \in Ids, code \in {0, 1} : ExitStandard(j, code)
    \/ \E j \in Ids : CancelPending(j)
    \/ \E j \in Ids : CancelDownloading(j)
    \/ CancelRefused
    \/ ClearQueue
    \/ TimerFire
    \/ Restart
    \/ LoadNothing
    \/ LoadState

RestartSpec == InitRestart /\ [][NextRestart]_vars

\* ResumeSpec: the run that follows the stop of a busy server: it starts with
\* BusySnapshot on disk and hands out the ids after those of the snapshot.
InitResume == Started(BusySnapshot, PriorJobs + 1)

NextResume ==
    \/ Submit(PriorJobs + ResumeJobs, FALSE)
    \/ \E j \in Ids : MkdirDone(j)
    \/ \E j \in Ids : MkdirFail(j)
    \/ \E j \in Ids, code \in {0, 1} : ExitStandard(j, code)
    \/ \E j \in Ids : CancelPending(j)
    \/ \E j \in Ids : CancelDownloading(j)
    \/ CancelRefused
    \/ ClearQueue
    \/ LoadState

ResumeSpec == InitResume /\ [][NextResume]_vars

\* A first start that finds no snapshot or an empty one, under the
\* scheduling of the event loop: a resolved mkdir or readFile is resumed and
\* the exit of a process is handled.  Every spawned process is assumed to
\* exit.
Fairness ==
    /\ WF_vars(LoadState)
    /\ \A j \in Ids :
          /\ WF_vars(MkdirDone(j) \/ MkdirFail(j))
          /\ WF_vars(\E code \in {0, 1} : ExitStandard(j, code))

FairSpec == Init /\ [][Next]_vars /\ Fairness

\* One run with the passing of time.  The event loop runs a due timer before
\* it takes the next event, and time does not pass a due timer.
TimerDue == saveTimeout # NoTimer /\ clock >= saveTimeout

\* Time passes: by TickMs, or up to the deadline of the armed timer.
Tick ==
    /\ ~TimerDue
    /\ clock' = IF saveTimeout # NoTimer /\ saveTimeout < clock + TickMs
                THEN saveTimeout ELSE clock + TickMs
    /\ clock' <= MaxClock
    /\ UNCHANGED <<jobs, queue, activeDownloads, activeProcesses, perItem,
                   task, item, proc, nextId, sent, saveTimeout, saves,
                   stateFile, backups, loadPc, admitted, spawns, cancelRet,
                   runVars>>

InitSave == Started(NoFile, 1)

NextSave ==
    \/ Tick
    \/ TimerDue /\ TimerFire
    \/ ~TimerDue /\ Submit(SaveJobs, FALSE)
    \/ \E j \in Ids : ~TimerDue /\ MkdirDone(j)
    \/ \E j \in Ids : ~TimerDue /\ MkdirFail(j)
    \/ \E j \in Ids, code \in {0, 1} : ~TimerDue /\ ExitStandard(j, code)
    \/ \E j \in Ids : ~TimerDue /\ CancelDownloading(j)
    \/ ~TimerDue /\ ClearQueue

SaveSpec == InitSave /\ [][NextSave]_vars

\* The snapshot an earlier run leaves behind when it is stopped while its
\* only job is "downloading": the queue is empty, the id was shifted out.
StoppedSnapshot ==
    [kind |-> "state", raw |-> "",
     jobs |-> [k \in {FirstJob} |-> [NewJob EXCEPT !.status = "downloading"]],
     queue |-> <<>>]

\* PersistSpec: the run that follows the stop of a server whose only job was
\* downloading, under the scheduling of the event loop: a resolved mkdir or
\* readFile is resumed, the exit of a process is handled, every spawned
\* process exits, an armed save timer fires and its write succeeds.
\* Submissions and cancels may stop at any time.
InitPersist == Started(StoppedSnapshot, FirstJob + 1)

NextPersist ==
    \/ Submit(FirstJob + PersistJobs, FALSE)
    \/ \E j \in Ids : MkdirDone(j)
    \/ \E j \in Ids, code \in {0, 1} : ExitStandard(j, code)
    \/ \E j \in Ids : CancelDownloading(j)
    \/ TimerFire
    \/ LoadState

FairPersist ==
    /\ WF_vars(LoadState)
    /\ WF_vars(TimerFire)
    /\ \A j \in Ids :
          /\ WF_vars(MkdirDone(j))
          /\ WF_vars(\E code \in {0, 1} : ExitStandard(j, code))

PersistSpec == InitPersist /\ [][NextPersist]_vars /\ FairPersist

\* ReloadSpec: a start on the snapshot of an earlier run that ended with no
\* jobs, with more jobs than there are slots: loadState, which the
\* constructor does not await, may finish after submissions, admissions,
\* exits and snapshot writes of this run.
InitReload == Started(EmptySnapshot, 1)

NextReload ==
    \/ Submit(ReloadJobs, FALSE)
    \/ \E j \in Ids : MkdirDone(j)
    \/ \E j \in Ids : ExitStandard(j, 0)
    \/ TimerFire
    \/ LoadState

ReloadSpec == InitReload /\ [][NextReload]_vars

\* LineSpec: one run with standard jobs, the first of which has a process
\* that prints lines of every kind: with and without "[download]", with and without a
\* percent, and, on the "[download]" lines, with and without an "N of M"
\* announcement.
Announcements ==
    {<<>>} \cup {<<n, m>> : n \in 1..MaxVideos, m \in {MaxVideos}}

Lines ==
    {l \in {Line(tag, percent, <<>>, announce) :
               tag \in BOOLEAN, percent \in {<<>>, <<50>>},
               announce \in Announcements} :
        l.announce # <<>> => l.tag}

InitLine == Started(NoFile, 1)

NextLine ==
    \/ Submit(LineJobs, FALSE)
    \/ \E j \in Ids : MkdirDone(j)
    \/ \E line \in Lines : OutputLine(FirstJob, line)
    \/ \E j \in Ids : ExitStandard(j, 0)

LineSpec == InitLine /\ [][NextLine]_vars

\* PrefetchSpec: one run with standard jobs, more than there are slots, whose
\* submissions see every outcome of type detection and of the metadata
\* pre-fetch, and whose processes exit with code 0.
InitPrefetch == Started(NoFile, 1)

NextPrefetch ==
    \/ \E detected \in Detections, fetched \in Fetches :
          SubmitWith(PrefetchJobs, FALSE, detected, fetched)
    \/ \E j \in Ids : MkdirDone(j)
    \/ \E j \in Ids : ExitStandard(j, 0)

PrefetchSpec == InitPrefetch /\ [][NextPrefetch]_vars

\* WriteSpec: the run of SaveSpec in which a write of the snapshot takes
\* time: writeFile resolves any time after the timer callback called it.
InitWrite == Started(NoFile, 1)

NextWrite ==
    \/ Tick
    \/ TimerDue /\ Len(saves.writing) < MaxWriting /\ WriteStart
    \/ \E i \in 1..MaxWriting : WriteEnd(i)
    \/ ~TimerDue /\ Submit(WriteJobs, FALSE)
    \/ \E j \in Ids : ~TimerDue /\ MkdirDone(j)
    \/ \E j \in Ids, code \in {0, 1} : ~TimerDue /\ ExitStandard(j, code)

WriteSpec == InitWrite /\ [][NextWrite]_vars

\* ThrottleSpec: one run with the passing of time and with more jobs than
\* slots, so that the last job waits; a client watches that job.  The
\* processes of the other jobs print no progress line, and the write of the
\* snapshot is left out.
Watched == ThrottleJobs
Watcher == CHOOSE ws \in Sockets : TRUE

Wait ==
    /\ clock' = clock + ThrottleTickMs
    /\ clock' <= MaxThrottleClock
    /\ UNCHANGED <<jobs, queue, activeDownloads, activeProcesses, perItem,
                   task, item, proc, nextId, sent, saveTimeout, saves,
                   stateFile, backups, loadPc, admitted, spawns, cancelRet,
                   runVars>>

InitThrottle == Started(NoFile, 1)

NextThrottle ==
    \/ Wait
    \/ Submit(ThrottleJobs, FALSE)
    \/ Subscribe(Watched, Watcher)
    \/ \E j \in Ids : MkdirDone(j)
    \/ \E p \in Percents : ProgressLine(Watched, p, <<>>)
    \/ \E j \in Ids, code \in {0, 1} : ExitStandard(j, code)
    \/ CancelPending(Watched)
    \/ CancelDownloading(Watched)

ThrottleSpec == InitThrottle /\ [][NextThrottle]_vars

\* MonotoneSpec: the run of ThrottleSpec without cancel, in which the
\* percent readings of the process of the watched job never decrease.
Readings == {10, 50, 100}

NonDecreasing(j, p) ==
    IF LastLine(j).line.percent = <<>> THEN TRUE
    ELSE p >= LastLine(j).line.percent[1]

InitMonotone == Started(NoFile, 1)

NextMonotone ==
    \/ Wait
    \/ Submit(ThrottleJobs, FALSE)
    \/ Subscribe(Watched, Watcher)
    \/ \E j \in Ids : MkdirDone(j)
    \/ \E p \in Readings :
          NonDecreasing(Watched, p) /\ ProgressLine(Watched, p, <<>>)
    \/ \E j \in Ids, code \in {0, 1} : ExitStandard(j, code)

MonotoneSpec == InitMonotone /\ [][NextMonotone]_vars

\* NotifySpec: one run with clients that subscribe to the job submitted last,
\* disconnect and break.
Notified == NotifyJobs

InitNotify == Started(NoFile, 1)

NextNotify ==
    \/ Submit(NotifyJobs, FALSE)
    \/ \E ws \in Sockets : Subscribe(Notified, ws)
    \/ \E ws \in Sockets : Close(ws)
    \/ \E ws \in Sockets : Break(ws)
    \/ \E j \in Ids : MkdirDone(j)
    \/ \E j \in Ids : MkdirFail(j)
    \/ ProgressLine(Notified, 50, <<>>)
    \/ \E j \in Ids, code \in {0, 1} : ExitStandard(j, code)
    \/ CancelDownloading(Notified)
    \/ ClearQueue

NotifySpec == InitNotify /\ [][NextNotify]_vars

\* ItemSpec: one run with per-item jobs whose processes print progress lines.
InitItem == Started(NoFile, 1)

NextItem ==
    \/ Submit(ItemJobs, TRUE)
    \/ \E j \in Ids : MkdirDone(j)
    \/ \E j \in Ids : MkdirFail(j)
    \/ \E j \in Ids, p \in Percents : ProgressLine(j, p, <<>>)
    \/ \E j \in Ids, code \in {0, 1} : ExitItem(j, code)
    \/ \E j \in Ids : CancelDownloading(j)

ItemSpec == InitItem /\ [][NextItem]_vars

\* LoopSpec: one run with per-item jobs only, whose processes print progress
\* lines and exit with any code; a job may be cancelled while one of its processes runs, and the
\* table may be cleared while its loop goes on.
InitLoop == Started(NoFile, 1)

NextLoop ==
    \/ Submit(LoopJobs, TRUE)
    \/ \E j \in Ids : MkdirDone(j)
    \/ \E j \in Ids : MkdirFail(j)
    \/ \E j \in Ids, code \in {0, 1} : ExitItem(j, code)
    \/ \E j \in Ids : ProgressLine(j, 50, <<>>)
    \/ \E j \in Ids : CancelDownloading(j)
    \/ ClearQueue

LoopSpec == InitLoop /\ [][NextLoop]_vars

\* TableSpec: one run with standard jobs, more than there are slots, whose
\* processes exit with any code; the job submitted first prints progress and
\* may be cancelled while it runs, the one submitted last may be cancelled
\* while it waits, and the table may be cleared.
InitTable == Started(NoFile, 1)

NextTable ==
    \/ Submit(TableJobs, FALSE)
    \/ \E j \in Ids : MkdirDone(j)
    \/ ProgressLine(FirstJob, 50, <<>>)
    \/ \E j \in Ids, code \in {0, 1} : ExitStandard(j, code)
    \/ CancelPending(TableJobs)
    \/ CancelDownloading(FirstJob)
    \/ CancelRefused
    \/ ClearQueue

TableSpec == InitTable /\ [][NextTable]_vars

\* RegistrySpec: one run with standard and per-item jobs whose processes exit
\* with any code, are killed by cancel or by clearQueue, or whose output
\* streams fail.
InitRegistry == Started(NoFile, 1)

NextRegistry ==
    \/ \E pi \in BOOLEAN : Submit(RegistryJobs, pi)
    \/ \E j \in Ids : MkdirDone(j)
    \/ \E j \in Ids, code \in {0, 1} : ExitStandard(j, code)
    \/ \E j \in Ids, code \in {0, 1} : ExitItem(j, code)
    \/ \E j \in Ids : StreamError(j)
    \/ \E j \in Ids : OrphanExit(j)
    \/ \E j \in Ids : CancelDownloading(j)
    \/ ClearQueue

RegistrySpec == InitRegistry /\ [][NextRegistry]_vars

\* SpeedSpec: one run with standard jobs whose processes print progress
\* lines that carry a speed.
InitSpeed == Started(NoFile, 1)

NextSpeed ==
    \/ Submit(SpeedJobs, FALSE)
    \/ \E j \in Ids : MkdirDone(j)
    \/ \E j \in Ids, sp \in Speeds : ProgressLine(j, 50, <<sp>>)
    \/ \E j \in Ids, code \in {0, 1} : ExitStandard(j, code)

SpeedSpec == InitSpeed /\ [][NextSpeed]_vars

\* ================================================================ claims

Downloading == {j \in DOMAIN jobs : jobs[j].status = "downloading"}

\* C1: in every reachable state the number of jobs of the job table whose
\* status is "downloading" is at most MAX_CONCURRENT.
C1_DownloadingAtMostBound == Cardinality(Downloading) <= MAX_CONCURRENT

\* C1 witness: every slot is taken by a "downloading" job and a job waits.
C1_Witness == Cardinality(Downloading) = MAX_CONCURRENT /\ queue # <<>>

\* The exit of the process that cancel killed has been handled.
KilledExitHandled(j) == cancelRet[j] = "downloading" /\ proc[j] # "killed"

\* C2: once cancel has succeeded on a "downloading" job and the exit of the
\* killed process has been handled, the job is "cancelled" and no
\* download-error event was broadcast for it.
C2_CancelResolvesToCancelled ==
    \A j \in DOMAIN jobs :
        KilledExitHandled(j) =>
            /\ jobs[j].status = "cancelled"
            /\ "download-error" \notin sent[j]

\* The status changes of the state machine pending -> downloading ->
\* {completed, failed, cancelled}, pending -> cancelled.
AllowedChange(from, to) ==
    \/ from = to
    \/ from = "pending" /\ to \in {"downloading", "cancelled"}
    \/ from = "downloading" /\ to \in Terminal

\* C3: every status change of a job of the table is one of the five of the
\* state machine; a completed, failed or cancelled job never changes status.
C3_StatusMachine ==
    [][\A j \in DOMAIN jobs \cap DOMAIN jobs' :
          AllowedChange(jobs[j].status, jobs'[j].status)]_vars

\* The queue loadState rebuilds from the snapshot file, before processQueue.
RebuiltQueue ==
    restoreQueue(stateFile.queue, restoreJobs(jobs, stateFile.jobs))

\* The server has been started again and loadState is about to restore a
\* snapshot that saveState wrote.
RestartedOnSnapshot ==
    /\ loadPc = "reading"
    /\ stateFile.kind = "state"
    /\ jobs = <<>>
    /\ saves = NoSaves

\* C4: when a restarted server restores a snapshot that saveState wrote, every
\* job the snapshot holds as "downloading" is restored as "pending" and its id
\* is exactly once in the rebuilt queue.
C4_DownloadingRequeued ==
    RestartedOnSnapshot =>
        \A j \in DOMAIN stateFile.jobs :
            stateFile.jobs[j].status = "downloading" =>
                /\ restoreJobs(jobs, stateFile.jobs)[j].status = "pending"
                /\ Occurrences(RebuiltQueue, j) = 1

\* C5: after cancel returned true on a "pending" job, the job is "cancelled",
\* its id is not in the queue, and executeDownload is never called for it, so
\* no process is spawned for it.
C5_CancelPending ==
    \A j \in Ids :
        cancelRet[j] = "pending" =>
            /\ StatusOf(jobs, j) = "cancelled"
            /\ ~InQueue(queue, j)
            /\ task[j] = "idle"
            /\ spawns[j] = 0
            /\ j \notin activeDownloads

\* C5 witness: a waiting job was cancelled and a job submitted after it has
\* since been admitted and has run to its end.
C5_Witness ==
    \E j, k \in Ids :
        /\ j < k
        /\ cancelRet[j] = "pending"
        /\ task[k] = "done"

\* C6: in every reachable state every id of the queue is the id of a job of
\* the job table whose status is "pending".
C6_QueueHoldsPending ==
    \A i \in 1..Len(queue) :
        /\ queue[i] \in DOMAIN jobs
        /\ jobs[queue[i]].status = "pending"

\* C6 witness: after the restore, the job the snapshot held in its queue waits
\* in the queue behind three running jobs.
C6_Witness ==
    /\ loadPc = "done"
    /\ InQueue(queue, PriorJobs)
    /\ Cardinality(Downloading) = MAX_CONCURRENT

\* C7: admission is first in, first out: a job enqueued after another is not
\* admitted while the earlier one, never cancelled, still is "pending" and has
\* not been admitted.
C7_Fifo ==
    \A a, b \in DOMAIN jobs :
        (a < b /\ b \in admitted) => (a \in admitted \/ jobs[a].status # "pending")

\* C8: with every resolved await resumed and every process exiting, and
\* without clearQueue or restart, every job of the job table eventually is
\* "completed", "failed" or "cancelled".
C8_QueueDrains ==
    \A j \in Ids : InTable(j) ~> (StatusOf(jobs, j) \in Terminal)

\* C9: while less than SAVE_DELAY has passed since the last saveState call no
\* write has started since that call, so none starts inside a burst; once more
\* than SAVE_DELAY has passed exactly one write has started since the call, and
\* it started SAVE_DELAY after the call.
C9_TrailingEdgeDebounce ==
    saves.last # NoTimer =>
        /\ clock < saves.last + SAVE_DELAY => saves.since = 0
        /\ clock > saves.last + SAVE_DELAY => saves.since = 1
        /\ saves.since <= 1
        /\ saves.since = 1 => saves.at = saves.last + SAVE_DELAY

\* C9 witness: a burst that lasted SAVE_DELAY or longer has ended and its one
\* write has started.
C9_Witness ==
    /\ saves.last # NoTimer
    /\ saves.last - saves.start >= SAVE_DELAY
    /\ saves.since = 1
    /\ clock > saves.at

\* loadState returns on a document it cannot restore.
LoadReturnsEarly ==
    loadPc = "reading" /\ loadPc' = "done" /\ stateFile.kind # "state"

\* C10: when loadState finds an empty, blank or unparsable document it
\* returns without failing, adds no job and no queue entry, leaves the
\* snapshot file alone and, if the document is unparsable, has written its
\* raw content to a backup.
C10_UnparsableSnapshot ==
    [][LoadReturnsEarly =>
          /\ jobs' = jobs
          /\ queue' = queue
          /\ stateFile' = stateFile
          /\ stateFile.kind = "corrupt" => stateFile.raw \in backups']_vars

\* C10 witness: after an unparsable snapshot was backed up, a job has been
\* submitted and has completed.
C10_Witness ==
    /\ loadPc = "done"
    /\ stateFile.kind = "corrupt"
    /\ stateFile.raw \in backups
    /\ \E j \in Ids : StatusOf(jobs, j) = "completed"

\* The status loadState gives a job the snapshot holds with status st.
RestoredStatus(st) == IF st = "downloading" THEN "pending" ELSE st

C12_ProgressThrottled == \A j \in Ids : ~LastEvent(j).early

\* The terminal event of a status.
EventOf(status) ==
    IF status = "completed" THEN "download-complete"
    ELSE IF status = "failed" THEN "download-error"
    ELSE "download-cancelled"

\* C13: in the step in which the status of a job of the table becomes
\* "completed", "failed" or "cancelled", the terminal event of that status is
\* broadcast for the job, and when the job has subscribers it is the event
\* sent last and reaches every subscriber whose socket works, whatever the
\* time since the last progress notification.
C13_TerminalEventNotThrottled ==
    [][\A j \in DOMAIN jobs \cap DOMAIN jobs' :
          (jobs'[j].status \in Terminal /\ jobs'[j].status # jobs[j].status)
             => /\ EventOf(jobs'[j].status) \in sent'[j]
                /\ Clients(j) # <<>> =>
                      /\ LastEvent(j)'.type = EventOf(jobs'[j].status)
                      /\ LastEvent(j)'.to = deliver(Clients(j), broken)]_vars

\* C13 witness: the watched job has ended less than BROADCAST_INTERVAL after
\* a progress notification was delivered to its subscriber, and the
\* subscriber got the terminal event.
C13_Witness ==
    /\ StatusOf(jobs, Watched) \in Terminal
    /\ LastEvent(Watched).type = EventOf(jobs[Watched].status)
    /\ LastEvent(Watched).to = {Watcher}
    /\ LastEvent(Watched).progressAt # NoTimer
    /\ LastEvent(Watched).progressAt = LastBroadcast(Watched)
    /\ clock - LastEvent(Watched).progressAt < BROADCAST_INTERVAL
    /\ clock > LastEvent(Watched).progressAt

\* broadcast() is called for job j in this step and the send() of one of the
\* subscribers of the job throws.
FailedDelivery(j) ==
    /\ LastEvent(j)' # LastEvent(j)
    /\ Range(Clients(j)) \cap broken # {}

\* C14: when the delivery of an event to a subscriber of a job fails, every
\* other subscriber of the job receives the event, and the step leaves the
\* job as it does without the failure: with the status of the terminal event,
\* "downloading" when the event announces its admission, and its status
\* unchanged on a progress notification.
C14_DeliveryFailureIsolated ==
    [][\A j \in Ids :
          FailedDelivery(j) =>
             /\ LastEvent(j)'.to = Range(Clients(j)) \ broken
             /\ LastEvent(j)'.failed = Range(Clients(j)) \cap broken
             /\ j \in DOMAIN jobs' =>
                   IF LastEvent(j)'.type # "download-progress"
                   THEN LastEvent(j)'.type = EventOf(jobs'[j].status)
                   ELSE IF j \in admitted' \ admitted
                   THEN jobs'[j].status = "downloading"
                   ELSE jobs'[j].status = jobs[j].status]_vars

\* C14 witness: a job has completed, and of the subscribers of its
\* download-complete event the first one failed and a later one received it.
C14_Witness ==
    \E j \in DOMAIN jobs :
        /\ jobs[j].status = "completed"
        /\ LastEvent(j).type = "download-complete"
        /\ Clients(j) # <<>>
        /\ Head(Clients(j)) \in LastEvent(j).failed
        /\ LastEvent(j).to # {}
        /\ LastEvent(j).to = LastEvent(j).subs \ LastEvent(j).failed

\* The process of standard job j of the table exited with a non-zero code,
\* and no cancel succeeded on the job.
FailedUncancelled(j) ==
    /\ j \in DOMAIN jobs \ perItem
    /\ ExitCodes(j) # <<>>
    /\ ExitCodes(j)[1] # 0
    /\ cancelRet[j] = "none"

\* C15: in the step in which the process of a standard job exits with a
\* non-zero code, with no cancel requested, the job becomes "failed", its
\* error message contains the exit code, and a download-error event is
\* broadcast for it; when the job has subscribers the event carries that
\* message and reaches every subscriber whose socket works.
C15_NonZeroExitFails ==
    [][\A j \in Ids :
          (ExitCodes(j)' # ExitCodes(j) /\ FailedUncancelled(j)') =>
             /\ jobs'[j].status = "failed"
             /\ ToString(ExitCodes(j)'[1]) \in Range(jobs'[j].error)
             /\ "download-error" \in sent'[j]
             /\ Clients(j) # <<>> =>
                   /\ LastEvent(j)'.type = "download-error"
                   /\ LastEvent(j)'.msg = jobs'[j].error
                   /\ LastEvent(j)'.to = deliver(Clients(j), broken)]_vars

\* C15 witness: a job failed on the exit code of its process and a
\* subscriber received the download-error event.
C15_Witness ==
    \E j \in Ids :
        /\ FailedUncancelled(j)
        /\ spawns[j] = 1
        /\ LastEvent(j).type = "download-error"
        /\ LastEvent(j).to # {}

\* Job j of the table fails in this step.
Fails(j) ==
    /\ j \in DOMAIN jobs \cap DOMAIN jobs'
    /\ jobs[j].status # "failed"
    /\ jobs'[j].status = "failed"

\* C16: the step in which a job fails changes no other job of the table
\* (status, progress, files, error), except that the admission pass that ends
\* the step turns the waiting jobs it admits from "pending" to "downloading";
\* that pass leaves no job waiting while a slot is free.
C16_FailureIsLocal ==
    [][\A j \in Ids :
          Fails(j) =>
             /\ DOMAIN jobs' = DOMAIN jobs
             /\ \A k \in DOMAIN jobs \ {j} :
                   IF k \in admitted' \ admitted
                   THEN /\ jobs[k].status = "pending"
                        /\ jobs'[k] = [jobs[k] EXCEPT !.status = "downloading"]
                   ELSE jobs'[k] = jobs[k]
             /\ j \notin activeDownloads'
             /\ queue' = <<>> \/ ~SlotFree(activeDownloads')
             /\ \A k \in admitted' \ admitted : k = Head(queue)]_vars

\* C16 witness: one job has failed; the watched job, which waited behind it,
\* was admitted by the pass that followed; it has since reported progress and
\* the other jobs are still "downloading".
C16_Witness ==
    /\ \E j \in DOMAIN jobs :
          /\ jobs[j].status = "failed"
          /\ \A k \in Ids : task[k] = "done" <=> k = j
    /\ StatusOf(jobs, Watched) = "downloading"
    /\ jobs[Watched].progress.percent # Pct(0, 1)
    /\ Cardinality(Downloading) = MAX_CONCURRENT

\* The processes of job j that were spawned and have not exited.
InFlight(j) == Len(ProcItems(j)) - Len(ExitCodes(j))

RECURSIVE SucceededFiles(_, _)
SucceededFiles(j, n) ==
    IF n = 0 THEN <<>>
    ELSE SucceededFiles(j, n - 1) \o
         (IF ExitCodes(j)[n] = 0 THEN <<FileOf(j, <<Items(j)[n]>>)>>
          ELSE <<>>)

\* C18: a per-item job of the table whose loop has ended has run the process
\* of every item of its list, whatever the exit codes of the earlier ones, is
\* "completed", and its file list is the concatenation, in item order, of the
\* files of the items whose process exited with code 0.
C18_ItemFailureSkipped ==
    \A j \in perItem \cap DOMAIN jobs :
        (task[j] = "done" /\ ProcItems(j) # <<>>) =>
            /\ Len(ExitCodes(j)) = Len(Items(j))
            /\ Len(ProcItems(j)) = Len(Items(j))
            /\ jobs[j].status = "completed"
            /\ jobs[j].files = SucceededFiles(j, Len(Items(j)))

\* C18 witness: a per-item job has ended whose first item failed and whose
\* last item succeeded, with no cancel.
C18_Witness ==
    \E j \in perItem \cap DOMAIN jobs :
        /\ task[j] = "done"
        /\ cancelRet[j] = "none"
        /\ ExitCodes(j) # <<>>
        /\ ExitCodes(j)[1] # 0
        /\ ExitCodes(j)[Len(ExitCodes(j))] = 0
        /\ jobs[j].status = "completed"
        /\ Len(jobs[j].files) = Len(Items(j)) - 1

\* C19: while a per-item job of the table processes item number i of T with
\* item percent p, the percent of the job is ((i - 1) / T) * 100 + p / T.
C19_OverallPercent ==
    \A j \in perItem \cap DOMAIN jobs :
        (task[j] = "download" /\ proc[j] = "running") =>
            LET T == Len(Items(j))
                p == LastProgress(j).percent
                overall == jobs[j].progress.percent
            IN overall.num * T * p.den
                  = ((item[j] - 1) * 100 * p.den + p.num) * overall.den

\* The last n elements of a sequence.
LastN(s, n) == SubSeq(s, Len(s) - n + 1, Len(s))

\* v, in hundredths, is the mean of the samples s written with two decimals.
IsMean(v, s) ==
    LET d == v * Len(s) - 100 * Sum(s) IN 2 * d <= Len(s) /\ -2 * d <= Len(s)

\* C20: after the n-th speed sample of a download, the speed it reports is
\* the mean of its last min(n, SPEED_HISTORY_SIZE) raw samples.
C20_SpeedIsWindowMean ==
    \A j \in Ids :
        (task[j] = "download" /\ Samples(j) # <<>>) =>
            LET n == Len(Samples(j))
                w == IF n < SPEED_HISTORY_SIZE THEN n ELSE SPEED_HISTORY_SIZE
            IN /\ Len(LastProgress(j).speed) = 1
               /\ IsMean(LastProgress(j).speed[1], LastN(Samples(j), w))

\* The download call of job j returns or throws in this step: its process
\* exited, or one of its streams failed.
DownloadEnds(j) ==
    \/ ExitCodes(j)' # ExitCodes(j)
    \/ /\ proc[j] = "running"
       /\ task[j] = "download"
       /\ proc'[j] = "orphan" \/ (proc'[j] = "running" /\ spawns'[j] # spawns[j])

\* C21: the registry holds an entry under a job id only while a process of
\* the job runs; a process is registered in the step that spawns it, and when
\* a download call ends (exit with code 0, with another code, after a kill,
\* or on a stream error) the registry holds no entry for the job, unless the
\* same step has spawned the process of the next item.
C21_RegistryTracksProcess ==
    [][\A j \in Ids :
          /\ j \in activeProcesses' => proc'[j] = "running"
          /\ spawns'[j] # spawns[j] => j \in activeProcesses'
          /\ DownloadEnds(j) =>
                (j \in activeProcesses' => spawns'[j] = spawns[j] + 1)]_vars

\* C21 witness: a per-item job was cancelled while the process of its first
\* item ran, that process exited with a non-zero code, the stream of the
\* process of its last item failed, and the registry is empty.
C21_Witness ==
    \E j \in perItem :
        /\ activeProcesses = {}
        /\ cancelRet[j] = "downloading"
        /\ ExitCodes(j) # <<>>
        /\ ExitCodes(j)[1] # 0
        /\ spawns[j] = Len(Items(j))
        /\ proc[j] = "orphan"
        /\ task[j] = "done"

\* Percent a is at most percent b.
PctLeq(a, b) == a.num * b.den <= b.num * a.den

\* C22: for a standard job whose process prints non-decreasing percent
\* readings, each progress notification delivered to its subscribers carries
\* a percent at least that of the one delivered before it, and once the job
\* is "completed" its percent is 100.
C22_ObservedPercentMonotone ==
    [][\A j \in Ids \ perItem :
          /\ (LastEvent(j).progress # <<>> /\ LastEvent(j)'.progress # <<>>)
                => PctLeq(LastEvent(j).progress[1].percent,
                          LastEvent(j)'.progress[1].percent)
          /\ (j \in DOMAIN jobs' /\ jobs'[j].status = "completed")
                => jobs'[j].progress.percent = Pct(100, 1)]_vars

\* C22 witness: the watched job completed on exit code 0 after its subscriber
\* received, BROADCAST_INTERVAL or more into the run, a notification with
\* percent 50; the last reading of its process was 50, below 100.
C22_Witness ==
    /\ StatusOf(jobs, Watched) = "completed"
    /\ ExitCodes(Watched) = <<0>>
    /\ LastEvent(Watched).type = "download-complete"
    /\ LastEvent(Watched).to = {Watcher}
    /\ LastEvent(Watched).progress # <<>>
    /\ LastEvent(Watched).progress[1].percent = Pct(50, 1)
    /\ LastEvent(Watched).progressAt >= BROADCAST_INTERVAL
    /\ LastLine(Watched).line.percent = <<50>>
    /\ jobs[Watched].progress.percent = Pct(100, 1)

\* A progress notification is delivered to a subscriber of job j in this step.
ProgressDelivered(j) ==
    /\ LastEvent(j)' # LastEvent(j)
    /\ LastEvent(j)'.type = "download-progress"
    /\ LastEvent(j)'.to # {}

C24_JobsRemovedOnlyByClear ==
    [][\/ DOMAIN jobs \subseteq DOMAIN jobs'
       \/ ClearQueue /\ jobs' = <<>> /\ queue' = <<>>]_vars

\* C24 witness: the table holds a job that was cancelled while it waited, a
\* job that failed, a job that completed and a running job whose progress
\* was reported.
C24_Witness ==
    /\ \E j \in DOMAIN jobs :
          cancelRet[j] = "pending" /\ jobs[j].status = "cancelled"
    /\ \E j \in DOMAIN jobs : jobs[j].status = "failed"
    /\ \E j \in DOMAIN jobs : jobs[j].status = "completed"
    /\ \E j \in DOMAIN jobs :
          /\ jobs[j].status = "downloading"
          /\ jobs[j].progress.percent = Pct(50, 1)

\* C25: at most one write of the snapshot file is in progress.
C25_SingleWriter == Len(saves.writing) <= 1

\* What addDownload leaves of job id when it has returned id: the job is in
\* the table with the initial progress and no error, and it is either waiting
\* in the queue as "pending" or, admitted by processQueue within the same
\* call, in the active set as "downloading".
Enqueued(id, jb, q, active) ==
    /\ id \in DOMAIN jb
    /\ jb[id].progress = InitialProgress
    /\ jb[id].error = <<>>
    /\ \/ jb[id].status = "pending" /\ InQueue(q, id) /\ id \notin active
       \/ jb[id].status = "downloading" /\ ~InQueue(q, id) /\ id \in active

\* C27: a submission whose metadata pre-fetch or type detection fails still
\* creates its job: the job has no title (type "video" when the detection
\* failed), and it is enqueued and admitted as the job of a submission whose
\* pre-fetch succeeded, which differs from it in the title only.
C27_PrefetchFailureNonFatal ==
    [][\A detected \in Detections, fetched \in Fetches :
          SubmitWith(PrefetchJobs, FALSE, detected, fetched)
          => /\ Enqueued(nextId, jobs', queue', activeDownloads')
             /\ jobs'[nextId].title = fetchTitle(fetched)
             /\ fetched = "fail" => jobs'[nextId].title = <<>>
             /\ detected = "fail" => jobs'[nextId].type = "video"
             /\ (InQueue(queue', nextId)
                   <=> Cardinality(activeDownloads) = MAX_CONCURRENT)]_vars

\* A job without a title waits in the queue behind running jobs, and a job
\* without a title is running.
C27_Witness ==
    /\ \E j \in DOMAIN jobs :
          jobs[j].title = <<>> /\ jobs[j].status = "pending" /\ InQueue(queue, j)
    /\ \E j \in DOMAIN jobs :
          jobs[j].title = <<>> /\ jobs[j].status = "downloading"

\* The item counters of a progress value are those of the announcement a.
Carries(progress, a) ==
    progress.currentVideo = a[1] /\ progress.totalVideos = a[2]

\* C28: after a "[download]" line announcing "item N of M", with or without
\* a percent, the progress of the download call has the counters N and M and
\* the progress callback was called with them (for a standard job the job's
\* progress is that value); after a line with neither a percent nor an
\* announcement no callback was made.
C28_ItemAnnouncementCounted ==
    \A j \in Ids :
        task[j] = "download" /\ proc[j] # "none" /\ LastLine(j) # NoLine
        => LET last == LastLine(j) IN
           /\ last.line.tag /\ last.line.announce # <<>>
                => /\ Carries(LastProgress(j), last.line.announce)
                   /\ last.calls >= 1
                   /\ j \notin perItem /\ InTable(j)
                        => Carries(jobs[j].progress, last.line.announce)
           /\ last.line.percent = <<>> /\ last.line.announce = <<>>
                => last.calls = 0

\* The last line of the running process of a standard job announced item 2
\* of 2 and had no percent: the job's progress has the counters and the
\* percent from before that line.
C28_Witness ==
    \E j \in Ids \ perItem :
        /\ task[j] = "download" /\ proc[j] = "running"
        /\ LastLine(j).line = Line(TRUE, <<>>, <<>>, <<MaxVideos, MaxVideos>>)
        /\ LastLine(j).calls = 1
        /\ InTable(j)
        /\ Carries(jobs[j].progress, <<MaxVideos, MaxVideos>>)
        /\ jobs[j].progress.percent = Pct(50, 1)

\* The event types that report the end of a job.
TerminalEvents == {EventOf(status) : status \in Terminal}

\* C29: once a terminal event was broadcast for a job, no step broadcasts
\* an event for that job again: the event types broadcast for it and the
\* event its subscribers got last stay as they are.
C29_SingleTerminalEvent ==
    [][\A j \in Ids :
          sent[j] \cap TerminalEvents # {}
             => sent'[j] = sent[j] /\ LastEvent(j)' = LastEvent(j)]_vars

\* C30: once cancelDownload has returned true for a per-item job that was
\* downloading, no step starts a process for the job and none makes the job
\* "completed".
C30_CancelStopsItemLoop ==
    [][\A j \in perItem \cap DOMAIN jobs :
          cancelRet[j] = "downloading"
             => /\ spawns'[j] = spawns[j]
                /\ StatusOf(jobs', j) # "completed"]_vars

\* Job j was created in this run and clearQueue has removed it from the table
\* (nothing else removes a job).
Cleared(j) == j < nextId /\ ~InTable(j)

\* C31: clearQueue kills every process that is running when it is called,
\* and no step starts a process for a job that clearQueue has removed.
C31_ClearStopsDownloads ==
    [][/\ ClearQueue => \A j \in Ids : proc[j] = "running" => proc'[j] = "killed"
       /\ \A j \in Ids : Cleared(j) => spawns'[j] = spawns[j]]_vars

\* The jobs whose yt-dlp process is running and was not sent a signal.
RunningProcesses == {j \in Ids : proc[j] = "running"}

\* C32: in every reachable state at most MAX_CONCURRENT download processes
\* are running.
C32_ProcessesAtMostBound == Cardinality(RunningProcesses) <= MAX_CONCURRENT

\* C33: in every reachable state each job of the table whose status is
\* "downloading" has a process registered under its id, so that cancel on
\* it succeeds.
C33_DownloadingIsCancellable ==
    \A j \in Downloading : j \in activeProcesses

\* The jobs of the table whose status is "pending".
Pending == {j \in DOMAIN jobs : jobs[j].status = "pending"}

\* C34: in every reachable state, which is a state between two operations,
\* the queue is empty or the active set holds MAX_CONCURRENT jobs, and a
\* "pending" job exists only while the active set holds MAX_CONCURRENT jobs.
C34_WorkConserving ==
    /\ queue = <<>> \/ Cardinality(activeDownloads) = MAX_CONCURRENT
    /\ Pending = {} \/ Cardinality(activeDownloads) = MAX_CONCURRENT

\* The jobs whose download call is in progress.
InDownload == {j \in Ids : task[j] = "download" /\ proc[j] = "running"}

\* C35: in the step in which a download that runs beside another download
\* reads a speed sample, the speed it reports is the mean of its own last
\* (up to SPEED_HISTORY_SIZE) raw samples, whatever the other downloads
\* read and whenever they started.
C35_SpeedSmoothingPerDownload ==
    [][\A j \in InDownload :
          (Samples(j)' # Samples(j) /\ InDownload \ {j} # {})
             => LET n == Len(Samples(j)')
                    w == IF n < SPEED_HISTORY_SIZE THEN n
                         ELSE SPEED_HISTORY_SIZE
                IN /\ Len(LastProgress(j)'.speed) = 1
                   /\ IsMean(LastProgress(j)'.speed[1],
                             LastN(Samples(j)', w))]_vars

\* loadState, which the constructor started and did not await, finishes in
\* this step.
RestoreCompletes == loadPc = "reading" /\ loadPc' = "done"

\* C36: a job submitted before loadState finished is in the job table when
\* loadState has finished, and when it is "pending" then, its id is in the
\* queue.
C36_SubmissionSurvivesRestore ==
    [][RestoreCompletes
         => \A j \in DOMAIN jobs :
               /\ j \in DOMAIN jobs'
               /\ jobs'[j].status = "pending" => InQueue(queue', j)]_vars

\* The queue q holds no id twice and none of the ids of the active set.
QueueSound(q, active) ==
    /\ \A a, b \in 1..Len(q) : q[a] = q[b] => a = b
    /\ Range(q) \cap active = {}

\* C37: the queue never holds an id twice nor an id of the active set, and
\* an id that enters the active set in a step was shifted out of the queue
\* by the admission pass of that step: it was in the queue before the step,
\* or the step is the addDownload call that pushed it or the end of
\* loadState, which rebuilt the queue, and it is not in the queue after.
C37_QueueAndActiveDisjoint ==
    [][/\ QueueSound(queue, activeDownloads)
       /\ QueueSound(queue', activeDownloads')
       /\ \A j \in activeDownloads' \ activeDownloads :
             /\ j \in admitted'
             /\ ~InQueue(queue', j)
             /\ \/ InQueue(queue, j)
                \/ j = nextId /\ nextId' = nextId + 1
                \/ RestoreCompletes /\ stateFile.kind = "state"
                     /\ j \in Range(stateFile.queue)]_vars

\* C38: in every reachable state, for every id and whether kill() throws or
\* not: cancelDownload returns false for an id that is not in the job table
\* and for a job that is "completed", "failed" or "cancelled"; when it
\* returns false it leaves the job table, the queue and the registry as
\* they are, broadcasts nothing and schedules no save; when it returns true
\* it has changed the job table and broadcast download-cancelled.
C38_FalseCancelChangesNothing ==
    \A j \in Ids, killThrows \in BOOLEAN :
        LET r == cancelDownload(jobs, queue, activeProcesses, j, killThrows)
        IN /\ (~InTable(j) \/ StatusOf(jobs, j) \in Terminal) => ~r.ret
           /\ ~r.ret => /\ r.jobs = jobs
                        /\ r.queue = queue
                        /\ r.registry = activeProcesses
                        /\ r.event = "none"
                        /\ ~r.saved
           /\ r.ret => /\ r.jobs # jobs
                       /\ r.event = "download-cancelled"

\* Cancel has returned true for a running job and for a waiting job, both
\* now "cancelled"; a third job is "downloading" with no process yet and a
\* fourth id is unknown: cancel returns false for all of them.
C38_Witness ==
    /\ \E j \in DOMAIN jobs :
          cancelRet[j] = "downloading" /\ jobs[j].status = "cancelled"
             /\ ~Cancelled(j).ret
    /\ \E j \in DOMAIN jobs :
          cancelRet[j] = "pending" /\ jobs[j].status = "cancelled"
             /\ ~Cancelled(j).ret
    /\ \E j \in DOMAIN jobs :
          jobs[j].status = "downloading" /\ j \notin activeProcesses
             /\ ~Cancelled(j).ret
    /\ \E j \in Ids : ~InTable(j) /\ ~Cancelled(j).ret

\* The snapshot file holds the ids and statuses of the job table and the
\* queue as they are in memory (no file: both are empty).
Persisted ==
    IF stateFile.kind = "state"
    THEN /\ DOMAIN stateFile.jobs = DOMAIN jobs
         /\ \A j \in DOMAIN jobs : stateFile.jobs[j].status = jobs[j].status
         /\ stateFile.queue = queue
    ELSE jobs = <<>> /\ queue = <<>>

\* C39: when the timer fires and writes succeed, from some point on the
\* snapshot file holds the ids and statuses of the job table and the queue
\* as they are in memory: the write after the last mutation has them.
C39_EventuallyPersisted == <>[]Persisted

====
